---------------------------- MODULE Spec2Model ----------------------------
(***************************************************************************)
(* State-machine model of the presentation loop of vulkan-triangle         *)
(* (src/src/main.rs): the closure handed to events_loop.run, the swapchain *)
(* it recreates, the framebuffer set and viewport rebuilt by               *)
(* window_size_dependent_setup, and the retained previous_frame_end        *)
(* future.                                                                 *)
(*                                                                         *)
(* The closure is an FnMut run on one thread: the event loop calls it for  *)
(* one event at a time and no call starts before the previous one has      *)
(* returned.  pc is the position inside the running call ("idle": no call  *)
(* is running).  The redraw handler is followed statement by statement     *)
(* because it blocks on the GPU (future.wait) in its middle; the window    *)
(* system and the GPU are the only things that move while a call runs.     *)
(*                                                                         *)
(* The window system (inner_size, the queue of Resized notifications), the *)
(* GPU (inFlight) and the event loop's own exit state (loop) are the       *)
(* environment.  ControlFlow::Exit is sticky in winit: once the closure    *)
(* has returned with Exit, later writes of Poll are ignored, the events of *)
(* the loop iteration under way are still handed to the closure, and the   *)
(* loop then delivers LoopDestroyed and stops.                             *)
(***************************************************************************)
EXTENDS Integers, Sequences, FiniteSets, TLC

\* ------------------------------------------------------------------ bounds

\* Window sizes are 0..MaxDim; 0 stands for a 0x0 (minimised) window.
MaxDim == 2
\* The largest number of images a swapchain is created with.
MaxImages == 2
\* How many times the window system resizes the window in one behaviour.
MaxResizes == 2
\* Identities available for swapchain generations.  A new generation takes an
\* identity that neither the swapchain nor a framebuffer still refers to.
NumGenIds == 3

Dims == 0..MaxDim
IsZero(d) == d = 0
ValidDims == {d \in Dims : ~IsZero(d)}
GenIds == 0..(NumGenIds - 1)

\* ------------------------------------------------------------------- state

VARIABLES
    loop,                \* the event loop: "running", "exiting", "destroyed"
    control_flow,        \* *control_flow as last written by the closure
    pc,                  \* position inside the closure
    ev,                  \* the event of the current (or last) call
    recreate_swapchain,  \* main.rs:154
    swapchain,           \* main.rs:70, replaced at main.rs:186
    framebuffers,        \* main.rs:148, replaced at main.rs:187
    dynamic_state,       \* main.rs:142, dynamic_state.viewports
    previous_frame_end,  \* main.rs:156: "None", "Now" or "Fence"
    image_num,           \* main.rs:196, 0 outside a frame
    command_buffer,      \* main.rs:208, <<>> outside a frame
    redraw_requested,    \* window.request_redraw() pending
    inner_size,          \* window.inner_size()
    resized_queue,       \* Resized notifications not yet delivered
    inFlight,            \* frames submitted to the GPU and not yet complete
    resizes,             \* how many times the window was resized
    ops,                 \* what the current (or last) call has done
    resizedSince,        \* Resized notifications handled since the last redraw began
    resizedBefore,       \* Resized notifications handled before the current redraw
    lastPayload,         \* <<d>>: the last Resized notification handled carried d
    absorbed,            \* a recreation at 0x0 reported UnsupportedDimensions
    shown                \* a frame was presented since the last resize

vars == <<loop, control_flow, pc, ev, recreate_swapchain, swapchain,
          framebuffers, dynamic_state, previous_frame_end, image_num,
          command_buffer, redraw_requested, inner_size, resized_queue,
          inFlight, resizes, ops, resizedSince, resizedBefore, lastPayload,
          absorbed, shown>>

\* What the closure owns.
progVars == <<recreate_swapchain, swapchain, framebuffers, dynamic_state,
              previous_frame_end, image_num, command_buffer>>
\* What belongs to the window system and the GPU.
envVars == <<inner_size, resized_queue, inFlight, resizes>>
\* Records of what happened, read by the properties only.
histVars == <<resizedSince, resizedBefore, lastPayload, absorbed, shown>>


\* -------------------------------------------------------- pure functions

\* The images of a swapchain generation g of n images with dimensions d.
Images(g, d, n) == [i \in 1..n |-> [gen |-> g, idx |-> i, dim |-> d]]

\* window_size_dependent_setup: the viewport takes the dimensions of the
\* first image; one framebuffer per image, in order.
SetupViewport(images) == << [dimensions |-> images[1].dim] >>

SetupFramebuffers(images) == [i \in 1..Len(images) |-> [image |-> images[i]]]

\* An identity for a new swapchain generation.
FreshGen == CHOOSE g \in GenIds :
               /\ g # swapchain.gen
               /\ \A i \in 1..Len(framebuffers) : framebuffers[i].image.gen # g

\* RecordCommands as it would be if the draw call were left out.
RecordWithoutDraw(fb, ds) ==
    << [cmd |-> "begin_render_pass", framebuffer |-> fb],
       [cmd |-> "end_render_pass"] >>

\* Lines 206-226: the command buffer recorded for a frame: the render pass on
\* the acquired image's framebuffer, one draw with the debug pipeline (the
\* pipeline of dbgpipe.rs, whose fragment shader writes red) and the dynamic
\* state, the end of the render pass.  main builds no other pipeline:
\* bmptxtpipe::build is never called.
RecordCommands(fb, ds) ==
    << [cmd |-> "begin_render_pass", framebuffer |-> fb],
       [cmd |-> "draw", pipeline |-> "debug", dynamic |-> ds],
       [cmd |-> "end_render_pass"] >>

\* ------------------------------------------------------------------- Init

Init ==
    /\ loop = "running"
    /\ control_flow = "Poll"
    /\ pc = "idle"
    /\ ev = "none"
    /\ recreate_swapchain = FALSE
    /\ inner_size \in ValidDims
    /\ \E n \in 1..MaxImages :
          swapchain = [gen |-> 0, dim |-> inner_size,
                       images |-> Images(0, inner_size, n)]
    /\ framebuffers = SetupFramebuffers(swapchain.images)
    /\ dynamic_state = [viewports |-> SetupViewport(swapchain.images)]
    /\ previous_frame_end = "Now"
    /\ image_num = 0
    /\ command_buffer = <<>>
    /\ redraw_requested = FALSE
    /\ resized_queue = <<>>
    /\ inFlight = 0
    /\ resizes = 0
    /\ ops = <<>>
    /\ resizedSince = 0
    /\ resizedBefore = 0
    /\ lastPayload = <<>>
    /\ absorbed = FALSE
    /\ shown = FALSE

\* ------------------------------------------------- the closure: its entry

\* Lines 159-163.  Every call of the closure starts here, whatever the event.
\* The event loop calls the closure only when no call is running and the loop
\* has not stopped.
Enter(e) ==
    /\ pc = "idle"
    /\ loop # "destroyed"
    /\ ev' = e
    /\ ops' = <<>>

\* Line 163: previous_frame_end.as_mut().unwrap() panics on None.
EntryPanics == previous_frame_end = "None"

\* What a return from the redraw handler leaves: its locals are gone.
Return ==
    /\ pc' = "idle"
    /\ image_num' = 0
    /\ command_buffer' = <<>>

\* A panic ends the process where it stands.
Panic == pc' = "panic"

Log(o, r) == ops' = Append(ops, [op |-> o, res |-> r])

\* ------------------------------------------- the closure: simple handlers

\* Lines 165-167: Event::EventsCleared => window.request_redraw().
EventsCleared ==
    /\ Enter("EventsCleared")
    /\ control_flow' = "Poll"
    /\ IF EntryPanics
          THEN Panic /\ UNCHANGED redraw_requested
          ELSE pc' = "idle" /\ redraw_requested' = TRUE
    /\ UNCHANGED <<loop, progVars, envVars, histVars>>

\* CloseRequested as it would be if the handler did not write Exit.
CloseWithoutExit ==
    /\ Enter("CloseRequested")
    /\ control_flow' = "Poll"
    /\ pc' = IF EntryPanics THEN "panic" ELSE "idle"
    /\ UNCHANGED <<loop, progVars, envVars, histVars, redraw_requested>>

\* Lines 255-260: CloseRequested => *control_flow = ControlFlow::Exit.  The
\* loop reads control_flow when the call returns and starts exiting.
CloseRequested ==
    /\ Enter("CloseRequested")
    /\ IF EntryPanics
          THEN Panic /\ control_flow' = "Poll" /\ UNCHANGED loop
          ELSE pc' = "idle" /\ control_flow' = "Exit" /\ loop' = "exiting"
    /\ UNCHANGED <<progVars, envVars, histVars, redraw_requested>>

\* Resized as it would be if the handler recreated the swapchain at once,
\* with the dimensions the notification carries.
ResizedRecreatesNow ==
    /\ Enter("Resized")
    /\ resized_queue # <<>>
    /\ resized_queue' = Tail(resized_queue)
    /\ lastPayload' = << Head(resized_queue) >>
    /\ control_flow' = "Poll"
    /\ pc' = IF EntryPanics THEN "panic" ELSE "idle"
    /\ resizedSince' = resizedSince + 1
    /\ \E n \in 1..MaxImages :
          LET new_images == Images(FreshGen, Head(resized_queue), n) IN
          /\ swapchain' = [gen |-> FreshGen, dim |-> Head(resized_queue),
                           images |-> new_images]
          /\ framebuffers' = SetupFramebuffers(new_images)
          /\ dynamic_state' = [dynamic_state EXCEPT
                                  !.viewports = SetupViewport(new_images)]
    /\ UNCHANGED <<loop, recreate_swapchain, previous_frame_end, image_num,
                   command_buffer, redraw_requested, inner_size, inFlight,
                   resizes, resizedBefore, absorbed, shown>>

\* Lines 261-264: Resized(_) => recreate_swapchain = true.  The dimensions the
\* notification carries are not read.
Resized ==
    /\ Enter("Resized")
    /\ resized_queue # <<>>
    /\ resized_queue' = Tail(resized_queue)
    /\ lastPayload' = << Head(resized_queue) >>
    /\ control_flow' = "Poll"
    /\ IF EntryPanics
          THEN Panic /\ UNCHANGED <<recreate_swapchain, resizedSince>>
          ELSE /\ pc' = "idle"
               /\ recreate_swapchain' = TRUE
               /\ resizedSince' = resizedSince + 1
    /\ UNCHANGED <<loop, swapchain, framebuffers, dynamic_state,
                   previous_frame_end, image_num, command_buffer,
                   redraw_requested, inner_size, inFlight, resizes,
                   resizedBefore, absorbed, shown>>

\* Line 265: _ => (), for every other event while the loop runs.
OtherEvent ==
    /\ Enter("Other")
    /\ control_flow' = "Poll"
    /\ pc' = IF EntryPanics THEN "panic" ELSE "idle"
    /\ UNCHANGED <<loop, progVars, envVars, histVars, redraw_requested>>

\* Line 265: _ => (), for Event::LoopDestroyed, the last call of the closure:
\* the loop stops after it.
LoopDestroyed ==
    /\ Enter("LoopDestroyed")
    /\ loop = "exiting"
    /\ loop' = "destroyed"
    /\ control_flow' = "Poll"
    /\ pc' = IF EntryPanics THEN "panic" ELSE "idle"
    /\ UNCHANGED <<progVars, envVars, histVars, redraw_requested>>

\* ------------------------------------------------------- the environment

\* The window system gives the window a new size and queues the notification.
\* The window lives as long as the process and its event loop.
PlatformResize(d) ==
    /\ pc # "panic"
    /\ loop # "destroyed"
    /\ resizes < MaxResizes
    /\ d # inner_size
    /\ inner_size' = d
    /\ resized_queue' = Append(resized_queue, d)
    /\ resizes' = resizes + 1
    /\ shown' = FALSE
    /\ UNCHANGED <<loop, control_flow, pc, ev, progVars, redraw_requested,
                   inFlight, ops, resizedSince, resizedBefore, lastPayload,
                   absorbed>>

\* The GPU finishes the oldest frame in flight; its fence signals.
GpuComplete ==
    /\ inFlight > 0
    /\ inFlight' = inFlight - 1
    /\ UNCHANGED <<loop, control_flow, pc, ev, progVars, redraw_requested,
                   inner_size, resized_queue, resizes, ops, histVars>>

\* ---------------------------------------- the closure: the redraw handler

\* RedrawStart as it would be if the handler did not look at
\* recreate_swapchain and went straight to the acquisition.
RedrawStartSkipsRecreate ==
    /\ Enter("RedrawRequested")
    /\ redraw_requested
    /\ redraw_requested' = FALSE
    /\ control_flow' = "Poll"
    /\ pc' = IF EntryPanics THEN "panic" ELSE "acquire"
    /\ resizedBefore' = resizedSince
    /\ resizedSince' = 0
    /\ UNCHANGED <<loop, progVars, envVars, lastPayload, absorbed, shown>>

\* Lines 168-172: RedrawRequested; the handler first looks at
\* recreate_swapchain.
RedrawStart ==
    /\ Enter("RedrawRequested")
    /\ redraw_requested
    /\ redraw_requested' = FALSE
    /\ control_flow' = "Poll"
    /\ pc' = IF EntryPanics THEN "panic"
             ELSE IF recreate_swapchain THEN "recreate" ELSE "acquire"
    /\ resizedBefore' = resizedSince
    /\ resizedSince' = 0
    /\ UNCHANGED <<loop, progVars, envVars, lastPayload, absorbed, shown>>

\* RecreateDimensions as it would be if the dimensions carried by the last
\* Resized notification were used.
NotifiedDimensions == IF lastPayload = <<>> THEN inner_size ELSE lastPayload[1]

\* Lines 173-176: the dimensions are read from the window when the
\* recreation runs.
RecreateDimensions == inner_size

LogRecreate(r) ==
    ops' = Append(ops, [op |-> "recreate", res |-> r,
                        dims |-> RecreateDimensions, size |-> inner_size])

\* RebuiltFramebuffers as it would be if only the first image got a
\* framebuffer.
FirstFramebufferOnly(new_images) == << [image |-> new_images[1]] >>

\* RebuiltFramebuffers as it would be if the old framebuffer set were kept.
KeptFramebuffers(new_images) == framebuffers

\* Lines 187-191: the framebuffer set is rebuilt from the new images.
RebuiltFramebuffers(new_images) == SetupFramebuffers(new_images)

\* RebuiltViewports as it would be if the viewport were left as it was.
KeptViewports(new_images) == dynamic_state.viewports

\* Lines 187-191, 282: and so is the viewport.
RebuiltViewports(new_images) == SetupViewport(new_images)

\* Lines 178-191: a successful recreation is followed by one call of
\* window_size_dependent_setup.
LogRecreateAndSetup ==
    ops' = ops \o << [op |-> "recreate", res |-> "Ok",
                      dims |-> RecreateDimensions, size |-> inner_size],
                     [op |-> "setup", res |-> "Ok"] >>

\* Lines 178-193, recreate_with_dimension returns Ok: swapchain, framebuffer
\* set and viewport are replaced and the flag is cleared.  may: whether the
\* platform can answer so.
RecreateOk(may) ==
    /\ pc = "recreate"
    /\ may
    /\ \E n \in 1..MaxImages :
          LET new_images == Images(FreshGen, RecreateDimensions, n) IN
          /\ swapchain' = [gen |-> FreshGen, dim |-> RecreateDimensions,
                           images |-> new_images]
          /\ framebuffers' = RebuiltFramebuffers(new_images)
          /\ dynamic_state' = [dynamic_state EXCEPT
                                  !.viewports = RebuiltViewports(new_images)]
    /\ recreate_swapchain' = FALSE
    /\ pc' = "acquire"
    /\ LogRecreateAndSetup
    /\ UNCHANGED <<loop, control_flow, ev, previous_frame_end, image_num,
                   command_buffer, redraw_requested, envVars, histVars>>

\* RecreateUnsupported as it would be if the arm went on to acquire.
UnsupportedFallsThrough(may) ==
    /\ pc = "recreate"
    /\ may
    /\ pc' = "acquire"
    /\ LogRecreate("UnsupportedDimensions")
    /\ absorbed' = (absorbed \/ IsZero(RecreateDimensions))
    /\ UNCHANGED <<loop, control_flow, ev, progVars, redraw_requested,
                   envVars, resizedSince, resizedBefore, lastPayload, shown>>

\* RecreateUnsupported as it would be if the arm were missing and the error
\* fell into Err(err) => panic!.
UnsupportedPanics(may) ==
    /\ pc = "recreate"
    /\ may
    /\ Panic
    /\ LogRecreate("UnsupportedDimensions")
    /\ UNCHANGED <<loop, control_flow, ev, progVars, redraw_requested,
                   envVars, histVars>>

\* Line 182: Err(UnsupportedDimensions) => return.
RecreateUnsupported(may) ==
    /\ pc = "recreate"
    /\ may
    /\ Return
    /\ LogRecreate("UnsupportedDimensions")
    /\ absorbed' = (absorbed \/ IsZero(RecreateDimensions))
    /\ UNCHANGED <<loop, control_flow, ev, recreate_swapchain, swapchain,
                   framebuffers, dynamic_state, previous_frame_end,
                   redraw_requested, envVars, resizedSince, resizedBefore,
                   lastPayload, shown>>

\* Line 183: Err(err) => panic!.
RecreateErr ==
    /\ pc = "recreate"
    /\ Panic
    /\ LogRecreate("Err")
    /\ UNCHANGED <<loop, control_flow, ev, progVars, redraw_requested,
                   envVars, histVars>>

\* Lines 186-191 and 288-292: the new swapchain is stored and a framebuffer's
\* build fails; its unwrap panics.
SetupErr ==
    /\ pc = "recreate"
    /\ \E n \in 1..MaxImages :
          swapchain' = [gen |-> FreshGen, dim |-> RecreateDimensions,
                        images |-> Images(FreshGen, RecreateDimensions, n)]
    /\ Panic
    /\ Log("setup", "Err")
    /\ UNCHANGED <<loop, control_flow, ev, recreate_swapchain, framebuffers,
                   dynamic_state, previous_frame_end, image_num,
                   command_buffer, redraw_requested, envVars, histVars>>

\* Lines 196-198: acquire_next_image returns Ok with the index of an image of
\* the swapchain (1-based here).
AcquireOk(may) ==
    /\ pc = "acquire"
    /\ may
    /\ \E i \in 1..Len(swapchain.images) : image_num' = i
    /\ pc' = "record"
    /\ Log("acquire", "Ok")
    /\ UNCHANGED <<loop, control_flow, ev, recreate_swapchain, swapchain,
                   framebuffers, dynamic_state, previous_frame_end,
                   command_buffer, redraw_requested, envVars, histVars>>

\* AcquireOutOfDate as it would be if the arm returned without setting the
\* flag.
AcquireOutOfDateNoFlag(may) ==
    /\ pc = "acquire"
    /\ may
    /\ Return
    /\ Log("acquire", "OutOfDate")
    /\ UNCHANGED <<loop, control_flow, ev, recreate_swapchain, swapchain,
                   framebuffers, dynamic_state, previous_frame_end,
                   redraw_requested, envVars, histVars>>

\* AcquireOutOfDate as it would be if the arm rebuilt the framebuffer set
\* at once, from the images of the outdated swapchain.
AcquireOutOfDateRebuilds(may) ==
    /\ pc = "acquire"
    /\ may
    /\ recreate_swapchain' = TRUE
    /\ framebuffers' = SetupFramebuffers(swapchain.images)
    /\ dynamic_state' = [dynamic_state EXCEPT
                            !.viewports = SetupViewport(swapchain.images)]
    /\ Return
    /\ ops' = ops \o << [op |-> "acquire", res |-> "OutOfDate"],
                        [op |-> "setup", res |-> "Ok"] >>
    /\ UNCHANGED <<loop, control_flow, ev, swapchain, previous_frame_end,
                   redraw_requested, envVars, histVars>>

\* Lines 199-202: Err(OutOfDate) => recreate_swapchain = true; return.
AcquireOutOfDate(may) ==
    /\ pc = "acquire"
    /\ may
    /\ recreate_swapchain' = TRUE
    /\ Return
    /\ Log("acquire", "OutOfDate")
    /\ UNCHANGED <<loop, control_flow, ev, swapchain, framebuffers,
                   dynamic_state, previous_frame_end, redraw_requested,
                   envVars, histVars>>

\* AcquireErr as it would be if every acquisition error were handled like
\* OutOfDate.
AcquireErrRecovers ==
    /\ pc = "acquire"
    /\ recreate_swapchain' = TRUE
    /\ Return
    /\ Log("acquire", "Err")
    /\ UNCHANGED <<loop, control_flow, ev, swapchain, framebuffers,
                   dynamic_state, previous_frame_end, redraw_requested,
                   envVars, histVars>>

\* Line 203: Err(err) => panic!.
AcquireErr ==
    /\ pc = "acquire"
    /\ Panic
    /\ Log("acquire", "Err")
    /\ UNCHANGED <<loop, control_flow, ev, progVars, redraw_requested,
                   envVars, histVars>>

\* Lines 206-226: the command buffer is recorded.  framebuffers[image_num]
\* panics when the index is out of bounds.
Record ==
    /\ pc = "record"
    /\ IF image_num \in 1..Len(framebuffers)
          THEN /\ command_buffer' =
                     RecordCommands(framebuffers[image_num], dynamic_state)
               /\ pc' = "submit"
               /\ Log("record", "Ok")
          ELSE /\ Panic
               /\ Log("record", "IndexOutOfBounds")
               /\ UNCHANGED command_buffer
    /\ UNCHANGED <<loop, control_flow, ev, recreate_swapchain, swapchain,
                   framebuffers, dynamic_state, previous_frame_end, image_num,
                   redraw_requested, envVars, histVars>>

\* Lines 208-226: one of the builder's unwraps fails.
RecordErr ==
    /\ pc = "record"
    /\ Panic
    /\ Log("record", "Err")
    /\ UNCHANGED <<loop, control_flow, ev, progVars, redraw_requested,
                   envVars, histVars>>

\* Lines 228-233: previous_frame_end.take(), prev.unwrap(), join and
\* then_execute, which returns Ok.  Nothing reaches the GPU before the flush.
Submit ==
    /\ pc = "submit"
    /\ previous_frame_end' = "None"
    /\ IF previous_frame_end = "None"
          THEN Panic /\ Log("submit", "UnwrapNone")
          ELSE /\ pc' = "flush"
               /\ ops' = Append(ops, [op |-> "submit", res |-> "Ok",
                                      prev |-> previous_frame_end])
    /\ UNCHANGED <<loop, control_flow, ev, recreate_swapchain, swapchain,
                   framebuffers, dynamic_state, image_num, command_buffer,
                   redraw_requested, envVars, histVars>>

\* Line 233: then_execute returns Err; its unwrap panics.
SubmitErr ==
    /\ pc = "submit"
    /\ previous_frame_end' = "None"
    /\ Panic
    /\ Log("submit", "Err")
    /\ UNCHANGED <<loop, control_flow, ev, recreate_swapchain, swapchain,
                   framebuffers, dynamic_state, image_num, command_buffer,
                   redraw_requested, envVars, histVars>>

\* FlushOk as it would be if the Ok arm retained the future without waiting.
FlushOkReturns(may) ==
    /\ pc = "flush"
    /\ may
    /\ inFlight' = inFlight + 1
    /\ previous_frame_end' = "Fence"
    /\ Return
    /\ Log("flush", "Ok")
    /\ UNCHANGED <<loop, control_flow, ev, recreate_swapchain, swapchain,
                   framebuffers, dynamic_state, redraw_requested, inner_size,
                   resized_queue, resizes, histVars>>

\* Lines 234-238: then_swapchain_present and then_signal_fence_and_flush
\* return Ok: the frame is on the GPU and the handler goes on to wait.
FlushOk(may) ==
    /\ pc = "flush"
    /\ may
    /\ inFlight' = inFlight + 1
    /\ pc' = "wait"
    /\ Log("flush", "Ok")
    /\ UNCHANGED <<loop, control_flow, ev, progVars, redraw_requested,
                   inner_size, resized_queue, resizes, histVars>>

\* FlushOutOfDate as it would be if the arm did not store a new future.
FlushOutOfDateKeepsNone(may) ==
    /\ pc = "flush"
    /\ may
    /\ recreate_swapchain' = TRUE
    /\ Return
    /\ Log("flush", "OutOfDate")
    /\ UNCHANGED <<loop, control_flow, ev, swapchain, framebuffers,
                   dynamic_state, previous_frame_end, redraw_requested,
                   envVars, histVars>>

\* Lines 242-246: Err(FlushError::OutOfDate): the flag is set and an
\* already complete future is retained.  The futures of the failed chain are
\* dropped, which leaves nothing of the frame on the GPU.
FlushOutOfDate(may) ==
    /\ pc = "flush"
    /\ may
    /\ recreate_swapchain' = TRUE
    /\ previous_frame_end' = "Now"
    /\ Return
    /\ Log("flush", "OutOfDate")
    /\ UNCHANGED <<loop, control_flow, ev, swapchain, framebuffers,
                   dynamic_state, redraw_requested, envVars, histVars>>

\* FlushErr as it would be if the arm only printed the error.
FlushErrKeepsNone ==
    /\ pc = "flush"
    /\ Return
    /\ Log("flush", "Err")
    /\ UNCHANGED <<loop, control_flow, ev, recreate_swapchain, swapchain,
                   framebuffers, dynamic_state, previous_frame_end,
                   redraw_requested, envVars, histVars>>

\* FlushErr as it would be if the arm also set recreate_swapchain.
FlushErrSetsFlag ==
    /\ pc = "flush"
    /\ recreate_swapchain' = TRUE
    /\ previous_frame_end' = "Now"
    /\ Return
    /\ Log("flush", "Err")
    /\ UNCHANGED <<loop, control_flow, ev, swapchain, framebuffers,
                   dynamic_state, redraw_requested, envVars, histVars>>

\* Lines 247-251: Err(e): the error is printed and an already complete
\* future is retained; recreate_swapchain is not written.
FlushErr ==
    /\ pc = "flush"
    /\ previous_frame_end' = "Now"
    /\ Return
    /\ Log("flush", "Err")
    /\ UNCHANGED <<loop, control_flow, ev, recreate_swapchain, swapchain,
                   framebuffers, dynamic_state, redraw_requested, envVars,
                   histVars>>

\* WaitOk as it would be if the wait did not block until the fence signals.
WaitNoBlock ==
    /\ pc = "wait"
    /\ previous_frame_end' = "Fence"
    /\ Return
    /\ Log("wait", "Ok")
    /\ shown' = TRUE
    /\ UNCHANGED <<loop, control_flow, ev, recreate_swapchain, swapchain,
                   framebuffers, dynamic_state, redraw_requested, envVars,
                   resizedSince, resizedBefore, lastPayload, absorbed>>

\* Lines 239-240: future.wait(None) returns once the fence has signalled, and
\* the future is retained.
WaitOk ==
    /\ pc = "wait"
    /\ inFlight = 0
    /\ previous_frame_end' = "Fence"
    /\ Return
    /\ Log("wait", "Ok")
    /\ shown' = TRUE
    /\ UNCHANGED <<loop, control_flow, ev, recreate_swapchain, swapchain,
                   framebuffers, dynamic_state, redraw_requested, envVars,
                   resizedSince, resizedBefore, lastPayload, absorbed>>

\* Line 239: future.wait(None) returns Err; its unwrap panics.
WaitErr ==
    /\ pc = "wait"
    /\ Panic
    /\ Log("wait", "Err")
    /\ UNCHANGED <<loop, control_flow, ev, progVars, redraw_requested,
                   envVars, histVars>>

\* ------------------------------------------------------ specifications

\* Any platform: every call may return any of its results.
Next ==
    \/ EventsCleared
    \/ RedrawStart
    \/ RecreateOk(TRUE)
    \/ RecreateUnsupported(TRUE)
    \/ RecreateErr
    \/ SetupErr
    \/ AcquireOk(TRUE)
    \/ AcquireOutOfDate(TRUE)
    \/ AcquireErr
    \/ Record
    \/ RecordErr
    \/ Submit
    \/ SubmitErr
    \/ FlushOk(TRUE)
    \/ FlushOutOfDate(TRUE)
    \/ FlushErr
    \/ WaitOk
    \/ WaitErr
    \/ CloseRequested
    \/ Resized
    \/ OtherEvent
    \/ LoopDestroyed
    \/ \E d \in Dims : PlatformResize(d)
    \/ GpuComplete

Spec == Init /\ [][Next]_vars

\* The swapchain no longer matches the window.
Outdated == swapchain.dim # inner_size

\* A window that is resized, possibly to 0x0 and back, and nothing else:
\* recreation reports UnsupportedDimensions exactly at 0x0, acquisition and
\* presentation report OutOfDate exactly on an outdated swapchain, and no
\* other error occurs.
NextResize ==
    \/ EventsCleared
    \/ RedrawStart
    \/ RecreateOk(~IsZero(inner_size))
    \/ RecreateUnsupported(IsZero(inner_size))
    \/ AcquireOk(~Outdated)
    \/ AcquireOutOfDate(Outdated)
    \/ Record
    \/ Submit
    \/ FlushOk(~Outdated)
    \/ FlushOutOfDate(Outdated)
    \/ WaitOk
    \/ Resized
    \/ \E d \in Dims : PlatformResize(d)
    \/ GpuComplete

\* The loop polls (ControlFlow::Poll): it keeps clearing events, the
\* requested redraw keeps arriving, a running call goes on to its next
\* statement, pending notifications are delivered and the GPU finishes what
\* it was given.
FairResize ==
    /\ WF_vars(EventsCleared)
    /\ WF_vars(RedrawStart)
    /\ WF_vars(RecreateOk(~IsZero(inner_size)))
    /\ WF_vars(RecreateUnsupported(IsZero(inner_size)))
    /\ WF_vars(AcquireOk(~Outdated))
    /\ WF_vars(AcquireOutOfDate(Outdated))
    /\ WF_vars(Record)
    /\ WF_vars(Submit)
    /\ WF_vars(FlushOk(~Outdated))
    /\ WF_vars(FlushOutOfDate(Outdated))
    /\ WF_vars(WaitOk)
    /\ WF_vars(Resized)
    /\ WF_vars(GpuComplete)

SpecResize == Init /\ [][NextResize]_vars /\ FairResize

\* ------------------------------------------------------------ properties

\* What the current (or last) call of the closure has done.
Did(o, r) == \E i \in DOMAIN ops : ops[i].op = o /\ ops[i].res = r

LastDid(o, r) ==
    /\ ops # <<>>
    /\ ops[Len(ops)].op = o
    /\ ops[Len(ops)].res = r

RecreateAttempts == {i \in DOMAIN ops : ops[i].op = "recreate"}

\* The handler is between the acquisition and its return.
InFrame == pc \in {"record", "submit", "flush", "wait"}

\* One framebuffer per image of the current swapchain, in order.
FramebuffersCurrent ==
    /\ Len(framebuffers) = Len(swapchain.images)
    /\ \A i \in 1..Len(framebuffers) :
          framebuffers[i].image = swapchain.images[i]

Draws(p) ==
    {i \in DOMAIN command_buffer :
        /\ command_buffer[i].cmd = "draw"
        /\ command_buffer[i].pipeline = p}

\* C1: at most one frame is in flight, and when the handler is about to
\* submit a frame (from the take of previous_frame_end to the flush) the
\* frame before it has completed.
C1_OneFrameInFlight ==
    /\ inFlight <= 1
    /\ pc \in {"submit", "flush"} => inFlight = 0

\* C1 witness: a second frame in a row is on the GPU: it was submitted after
\* the fence of the frame before it.
C1_Witness ==
    /\ pc = "wait"
    /\ inFlight = 1
    /\ \E i \in DOMAIN ops :
          /\ ops[i].op = "submit"
          /\ ops[i].res = "Ok"
          /\ ops[i].prev = "Fence"

\* C2: whenever an image is about to be acquired, is acquired or a frame is
\* submitted, the framebuffer set is the one built from the images of the
\* current swapchain, and the framebuffer recorded in the command buffer is
\* of the current generation.
C2_FramebuffersOfCurrentSwapchain ==
    (pc = "acquire" \/ InFrame) =>
        /\ FramebuffersCurrent
        /\ command_buffer # <<>> =>
              command_buffer[1].framebuffer.image.gen = swapchain.gen

\* C2 witness: a frame recorded by the redraw that recreated the swapchain.
C2_Witness ==
    /\ pc = "submit"
    /\ Did("recreate", "Ok")
    /\ command_buffer # <<>>

\* C3 as stated: after a flush error other than OutOfDate the process goes
\* on, the state is SwapchainStale and an already complete fence is retained.
C3_FlushErrLikeOutOfDate ==
    LastDid("flush", "Err") =>
        /\ pc = "idle"
        /\ recreate_swapchain
        /\ previous_frame_end = "Now"

\* C3 amended: after a flush error other than OutOfDate the process goes on
\* and an already complete fence is retained, but the state is not made
\* SwapchainStale: recreate_swapchain stays false.
C3_FlushErrKeepsSwapchain ==
    LastDid("flush", "Err") =>
        /\ pc = "idle"
        /\ ~recreate_swapchain
        /\ previous_frame_end = "Now"

\* C3 witness: a redraw has just ended on such a flush error.
C3_Witness == LastDid("flush", "Err") /\ ev = "RedrawRequested"

\* C4 as stated: once close-requested has been handled no later event
\* recreates the swapchain, acquires an image or submits a frame.  (ops holds
\* only what the calls after the close have done: every call empties it.)
C4_NothingAfterClose ==
    loop # "running" =>
        \A i \in DOMAIN ops :
            ops[i].op \notin {"recreate", "acquire", "submit", "flush"}

\* C4 amended: the close handler leaves the loop exiting, an exiting loop
\* never runs again, and once the loop has stopped (LoopDestroyed delivered)
\* the closure is not called any more; the events the exiting loop still
\* delivers are handled as before.
C4_ExitIsFinal ==
    /\ [](ev = "CloseRequested" /\ pc = "idle" => loop # "running")
    /\ [][loop # "running" => loop' # "running"]_vars
    /\ [][loop = "destroyed" =>
             UNCHANGED <<pc, ev, ops, control_flow, progVars>>]_vars

\* C4 witness: the loop has stopped after a close.
C4_Witness == loop = "destroyed" /\ pc = "idle"

\* C5: a redraw that follows k >= 1 resize notifications has made exactly
\* one recreation attempt once it is past the recreation, and every attempt
\* is made with the size the window has at that moment.
C5_OneRecreationWithCurrentSize ==
    /\ (ev = "RedrawRequested" /\ resizedBefore >= 1
           /\ pc \notin {"recreate", "panic"})
          => Cardinality(RecreateAttempts) = 1
    /\ \A i \in RecreateAttempts : ops[i].dims = ops[i].size

\* C5 witness: two notifications, one attempt.
C5_Witness ==
    /\ ev = "RedrawRequested"
    /\ resizedBefore >= 2
    /\ pc = "acquire"
    /\ Cardinality(RecreateAttempts) = 1

\* C6: the step in which recreation reports UnsupportedDimensions ends the
\* redraw with nothing else done, leaves the state stale and changes neither
\* swapchain, framebuffer set, viewport nor retained fence.
C6_UnsupportedSkipsFrame ==
    [][(pc = "recreate" /\ LastDid("recreate", "UnsupportedDimensions")')
          => /\ pc' = "idle"
             /\ Len(ops') = 1
             /\ recreate_swapchain'
             /\ UNCHANGED <<recreate_swapchain, swapchain, framebuffers,
                            dynamic_state, previous_frame_end, inFlight>>]_vars

\* C6 witness: a redraw has just ended on UnsupportedDimensions.
C6_Witness == LastDid("recreate", "UnsupportedDimensions") /\ pc = "idle"

\* C7: in the resize scenario the process never panics, and whenever the
\* window has a valid size a frame is eventually presented, unless the
\* window is resized again first.
C7_ResizeToZeroAndBack ==
    /\ [](pc # "panic")
    /\ \A r \in 0..MaxResizes :
          (resizes = r /\ ~IsZero(inner_size)) ~> (shown \/ resizes > r)

\* C7 witness: a recreation at 0x0 was absorbed, the window is valid again
\* and a frame has been presented since.
C7_Witness == absorbed /\ ~IsZero(inner_size) /\ shown

FatalOps == {"recreate", "acquire", "submit"}

\* C8 as stated: every error of recreation, acquisition, submission or flush
\* other than OutOfDate and UnsupportedDimensions ends the process.
C8_EveryOtherErrorIsFatal ==
    \A i \in DOMAIN ops :
        (ops[i].op \in FatalOps \cup {"flush"} /\ ops[i].res = "Err")
            => pc = "panic"

\* C8 amended: such an error of recreation, acquisition or submission
\* (then_execute) ends the process and nothing is handled after it; such an
\* error of the flush is printed and the process goes on.
C8_OtherErrorsFatalButFlush ==
    /\ [](\A i \in DOMAIN ops :
            /\ (ops[i].op \in FatalOps /\ ops[i].res = "Err") => pc = "panic"
            /\ (ops[i].op = "flush" /\ ops[i].res = "Err") => pc = "idle")
    /\ [][pc = "panic" =>
             UNCHANGED <<pc, ev, ops, loop, control_flow, progVars>>]_vars

\* C8 witness: an acquisition error has ended the process.
C8_Witness == LastDid("acquire", "Err") /\ pc = "panic"

\* C9: while a frame is under way the event being handled is the redraw;
\* when close-requested is handled no image is held and no frame is in
\* flight; and when the loop has stopped no frame is in flight.
C9_CloseNeverMidFrame ==
    /\ pc \notin {"idle", "panic"} => ev = "RedrawRequested"
    /\ ev = "CloseRequested" =>
          /\ pc \in {"idle", "panic"}
          /\ image_num = 0
          /\ command_buffer = <<>>
          /\ inFlight = 0
    /\ loop = "destroyed" => inFlight = 0

\* C9 witness: the loop has stopped after at least one frame was submitted.
C9_Witness ==
    /\ loop = "destroyed"
    /\ previous_frame_end = "Fence"
    /\ inFlight = 0

\* C10 as stated: every frame that is recorded and submitted draws the
\* triangle of the debug pipeline and the quad of the bitmap-text pipeline.
C10_DrawsBothShapes ==
    pc \in {"submit", "flush", "wait"} =>
        /\ Draws("debug") # {}
        /\ Draws("bmptxt") # {}

\* C10 amended: every frame that is recorded and submitted holds exactly one
\* draw call, that of the debug pipeline (the red triangle), inside its
\* render pass; the quad of the bitmap-text pipeline is not drawn.
C10_DrawsTriangleOnly ==
    pc \in {"submit", "flush", "wait"} =>
        /\ Len(command_buffer) = 3
        /\ command_buffer[1].cmd = "begin_render_pass"
        /\ Draws("debug") = {2}
        /\ Draws("bmptxt") = {}
        /\ command_buffer[3].cmd = "end_render_pass"

\* C10 witness: a recorded frame is on the GPU.
C10_Witness == pc = "wait" /\ inFlight = 1 /\ command_buffer # <<>>

\* C11: after the flush has reported OutOfDate the handler has returned
\* without a panic, the state is stale and the retained future is an already
\* complete one; and whatever a submission waits on is either such a future
\* or the fence of a frame that was flushed and has completed, never the
\* future of a failed flush.
C11_FlushOutOfDateRecovers ==
    /\ LastDid("flush", "OutOfDate") =>
          /\ pc = "idle"
          /\ recreate_swapchain
          /\ previous_frame_end = "Now"
    /\ \A i \in DOMAIN ops :
          (ops[i].op = "submit" /\ ops[i].res = "Ok")
              => ops[i].prev \in {"Now", "Fence"}
    /\ ~Did("submit", "UnwrapNone")

\* C11 witness: a redraw has just ended on OutOfDate from the flush.
C11_Witness ==
    /\ LastDid("flush", "OutOfDate")
    /\ pc = "idle"
    /\ loop = "running"

\* C12: the step in which the acquisition reports OutOfDate ends the redraw
\* with the state stale, nothing recorded or submitted, and swapchain,
\* framebuffer set, viewport and retained future as they were.
C12_AcquireOutOfDateSkipsFrame ==
    [][(pc = "acquire" /\ LastDid("acquire", "OutOfDate")')
          => /\ pc' = "idle"
             /\ recreate_swapchain'
             /\ command_buffer' = <<>>
             /\ \A i \in DOMAIN ops' :
                   ops'[i].op \notin {"record", "submit", "flush", "wait"}
             /\ previous_frame_end' # "None"
             /\ UNCHANGED <<swapchain, framebuffers, dynamic_state,
                            previous_frame_end, inFlight>>]_vars

\* C12 witness: a redraw has just ended on OutOfDate from the acquisition.
C12_Witness == LastDid("acquire", "OutOfDate") /\ pc = "idle"

\* C13: the handler is never at or past the acquisition while the state is
\* stale, and the stale flag is cleared only by the step in which the
\* recreation succeeds and the framebuffer set is rebuilt from the new
\* swapchain.
C13_NoAcquireWhileStale ==
    /\ []((pc = "acquire" \/ InFrame) => ~recreate_swapchain)
    /\ [][(recreate_swapchain /\ ~recreate_swapchain')
            => /\ pc = "recreate"
               /\ Did("recreate", "Ok")'
               /\ swapchain' # swapchain
               /\ FramebuffersCurrent'
               /\ pc' = "acquire"]_vars

\* C13 witness: a redraw that began stale has recreated the swapchain and
\* is about to acquire with the flag cleared.
C13_Witness ==
    /\ pc = "acquire"
    /\ resizedBefore >= 1
    /\ Did("recreate", "Ok")
    /\ ~recreate_swapchain

\* C14: whenever no call of the closure is running a future is retained, so
\* neither the unwrap at the closure's entry (a panic before anything is
\* logged) nor the unwrap of the taken future ever fails.
C14_FutureRetainedAtEntry ==
    /\ pc = "idle" => previous_frame_end \in {"Now", "Fence"}
    /\ ~(pc = "panic" /\ ops = <<>>)
    /\ ~Did("submit", "UnwrapNone")

\* C14 witness: the closure was entered again after a redraw that took the
\* future and stored the fence of its frame.
C14_Witness ==
    /\ ev = "EventsCleared"
    /\ pc = "idle"
    /\ previous_frame_end = "Fence"

\* C15: the step that handles a Resized notification returns with the state
\* stale, has called nothing, and leaves swapchain, framebuffer set,
\* viewport, retained future and the GPU as they were; the swapchain is
\* replaced only by the recreation step of a redraw.
C15_ResizedOnlySetsFlag ==
    /\ [][Len(resized_queue') < Len(resized_queue)
            => /\ ev' = "Resized"
               /\ pc' = "idle"
               /\ recreate_swapchain'
               /\ ops' = <<>>
               /\ UNCHANGED <<swapchain, framebuffers, dynamic_state,
                              previous_frame_end, image_num, command_buffer,
                              inFlight>>]_vars
    /\ [][swapchain' # swapchain
            => ev = "RedrawRequested" /\ pc = "recreate"]_vars

\* C15 witness: a notification has just been handled.
C15_Witness ==
    /\ ev = "Resized"
    /\ pc = "idle"
    /\ recreate_swapchain
    /\ lastPayload # <<>>

\* How many times a log shows window_size_dependent_setup being called.
SetupRuns(log) == Cardinality({i \in DOMAIN log : log[i].op = "setup"})

\* What C16 asks of every step.
SetupInLockStep ==
    /\ (swapchain' # swapchain) <=> (SetupRuns(ops') = SetupRuns(ops) + 1)
    /\ SetupRuns(ops') <= SetupRuns(ops) + 1
    /\ (swapchain' # swapchain) => (swapchain'.gen # swapchain.gen)
    /\ (swapchain' # swapchain) =>
          (\/ pc' = "panic"
           \/ framebuffers' = SetupFramebuffers(swapchain'.images))
    /\ (framebuffers' # framebuffers) => (swapchain' # swapchain)

\* C16: window_size_dependent_setup is called in exactly the steps that
\* replace the swapchain by a new generation, once in each; the framebuffer
\* set changes only in such a step, to the set built from the new images
\* (or the call panics and the process ends); and outside a panic the
\* framebuffer set is always the one built once from the current swapchain,
\* the first of them before the loop starts.
C16_SetupOncePerGeneration ==
    /\ [](pc # "panic" => FramebuffersCurrent)
    /\ [][SetupInLockStep]_vars

\* C16 witness: a redraw has replaced the swapchain and called the builder
\* once for it.
C16_Witness ==
    /\ SetupRuns(ops) = 1
    /\ Did("recreate", "Ok")
    /\ swapchain.gen # 0
    /\ FramebuffersCurrent

\* C17: an acquired image index is an index of the framebuffer set, which
\* has one entry per image of the current swapchain, the entry of that
\* image; framebuffers[image_num] never goes out of bounds.
C17_ImageIndexInBounds ==
    /\ InFrame =>
          /\ Len(framebuffers) = Len(swapchain.images)
          /\ image_num \in 1..Len(framebuffers)
          /\ framebuffers[image_num].image = swapchain.images[image_num]
    /\ ~Did("record", "IndexOutOfBounds")

\* C17 witness: the last image of a recreated swapchain of several images
\* was acquired and its framebuffer recorded.
C17_Witness ==
    /\ pc = "submit"
    /\ Did("recreate", "Ok")
    /\ image_num = Len(swapchain.images)
    /\ image_num > 1

\* The viewport window_size_dependent_setup computes for the swapchain.
ViewportOfSwapchain == << [dimensions |-> swapchain.images[1].dim] >>

\* What C18 asks of every step.
ViewportInLockStep ==
    /\ (dynamic_state' # dynamic_state) => (framebuffers' # framebuffers)
    /\ (framebuffers' # framebuffers) =>
          (dynamic_state'.viewports = ViewportOfSwapchain')

=============================================================================
